---- MODULE Spec2Model ----
(***************************************************************************)
(* Model of chatgpt-bot-service/main.go.  The file holds two builds of    *)
(* the same service: the cached build (lines 1-240: keyword index, Redis   *)
(* response cache, paginated catalog query) and the AI build (lines        *)
(* 242-580: ChatGPT fallback, category / price / date queries).           *)
(* Strings are sequences of one-character strings, so that ToLower,       *)
(* Contains and Fields are computed as the Go library computes them.      *)
(***************************************************************************)
EXTENDS Integers, Sequences, FiniteSets, TLC

VARIABLES build, pc, catalog, synonyms, cache, written, now, apiKey, nreq, last

vars == <<build, pc, catalog, synonyms, cache, written, now, apiKey, nreq, last>>

---------------------------------------------------------------------------
(* Bounds of the model *)
MaxCatalog == 2
MaxRequests == 2
MaxTime == 10
TickStep == 5
MaxFaultPos == 1

(* Program constants *)
CacheTTL == 10
PageLimit == 10
FirstPage == 1
StatusOK == 200
StatusBadRequest == 400
StatusInternalServerError == 500

---------------------------------------------------------------------------
(* String literals of the source *)
S_barato == <<"b","a","r","a","t","o">>
S_caro == <<"c","a","r","o">>
S_nuevo == <<"n","u","e","v","o">>
S_reciente == <<"r","e","c","i","e","n","t","e">>
S_antiguo == <<"a","n","t","i","g","u","o">>
S_curso == <<"c","u","r","s","o">>
S_recomendar == <<"r","e","c","o","m","e","n","d","a","r">>
S_programacion == <<"p","r","o","g","r","a","m","a","c","i","ó","n">>
S_precio == <<"p","r","e","c","i","o">>
S_frontend == <<"f","r","o","n","t","e","n","d">>
S_backend == <<"b","a","c","k","e","n","d">>
S_web == <<"w","e","b">>
S_desarrollo == <<"d","e","s","a","r","r","o","l","l","o">>
S_moviles == <<"m","ó","v","i","l","e","s">>
S_python == <<"p","y","t","h","o","n">>
S_javascript == <<"j","a","v","a","s","c","r","i","p","t">>
S_servidor == <<"s","e","r","v","i","d","o","r">>
S_API == <<"A","P","I">>
S_fullstack == <<"f","u","l","l","s","t","a","c","k">>
S_queryPrefix == <<"q","u","e","r","y",":">>

(* strings.ToLower / strings.Contains / strings.Fields *)
UpperChars == <<"A","B","C","D","E","F","G","H","I","J","K","L","M","N","O","P","Q","R","S","T","U","V","W","X","Y","Z","Ó">>
LowerChars == <<"a","b","c","d","e","f","g","h","i","j","k","l","m","n","o","p","q","r","s","t","u","v","w","x","y","z","ó">>

LowerOf == [c \in {UpperChars[i] : i \in 1..Len(UpperChars)} |->
              LowerChars[CHOOSE i \in 1..Len(UpperChars) : UpperChars[i] = c]]
           @@ [c \in {} |-> c]

LowerChar(c) == IF c \in DOMAIN LowerOf THEN LowerOf[c] ELSE c

ToLower(s) == [i \in 1..Len(s) |-> LowerChar(s[i])]

Contains(s, sub) ==
  \E i \in 0..(Len(s) - Len(sub)) : SubSeq(s, i + 1, i + Len(sub)) = sub

RECURSIVE FieldsFrom(_, _, _)
FieldsFrom(s, i, cur) ==
  IF i > Len(s)
  THEN IF cur = <<>> THEN <<>> ELSE <<cur>>
  ELSE IF s[i] = " "
       THEN (IF cur = <<>> THEN <<>> ELSE <<cur>>) \o FieldsFrom(s, i + 1, <<>>)
       ELSE FieldsFrom(s, i + 1, Append(cur, s[i]))

Fields(s) == FieldsFrom(s, 1, <<>>)

(* strings.Contains(strings.ToLower(a), strings.ToLower(b)): what a       *)
(* MongoDB $regex with $options "i" matches for a metacharacter-free term *)
RegexMatchI(field, term) == Contains(ToLower(field), ToLower(term))

---------------------------------------------------------------------------
(* The catalog: documents of coursesDB.courses *)
CourseA ==
  [id |-> 1, category |-> <<"P","y","t","h","o","n">>,
   title |-> <<"C","u","r","s","o"," ","P","y","t","h","o","n">>,
   description |-> <<"b","a","s","i","c","o">>, price |-> 50, createdat |-> 1]

CourseB ==
  [id |-> 2, category |-> <<"W","e","b">>,
   title |-> <<"D","e","s","a","r","r","o","l","l","o"," ","W","e","b">>,
   description |-> <<"f","r","o","n","t","e","n","d">>, price |-> 10, createdat |-> 2]

(* a nil map[string]interface{}: what a failed cursor.Decode leaves behind *)
NilCourse ==
  [id |-> 0, category |-> <<>>, title |-> <<>>, description |-> <<>>,
   price |-> 0, createdat |-> 0]

Courses == {CourseA, CourseB}

(* a catalog of more documents than one page holds *)
BigCatalog ==
  [i \in 1..(PageLimit + 1) |->
     [id |-> 10 + i, category |-> <<"W","e","b">>, title |-> <<"W","e","b">>,
      description |-> <<"x">>, price |-> 100 - i, createdat |-> i]]

NoDup(s) == \A i, j \in 1..Len(s) : i # j => s[i] # s[j]

Catalogs ==
  {BigCatalog} \cup
  UNION {{s \in [1..n -> Courses] : NoDup(s)} : n \in 0..MaxCatalog}

---------------------------------------------------------------------------
(* Requests: the value of the "question" query parameter *)
Q_empty == <<>>
Q_cheapExpensive == <<"b","a","r","a","t","o"," ","c","a","r","o">>
Q_cheapNewWeb == <<"b","a","r","a","t","o"," ","n","u","e","v","o"," ","w","e","b">>
Q_newCourse == <<"c","u","r","s","o"," ","n","u","e","v","o">>
Q_hello == <<"h","o","l","a">>
Q_course == <<"c","u","r","s","o">>
Q_CheapUpper == <<"C","u","r","s","o"," ","B","a","r","a","t","o">>

Questions ==
  {Q_empty, Q_cheapExpensive, Q_cheapNewWeb, Q_newCourse, Q_hello, Q_course,
   Q_CheapUpper}

(* Texts the remote completion may carry *)
AITexts == {S_backend, <<"n","o">>}

(* What the remote chat-completion call may do *)
AIOutcomes ==
  {[kind |-> k, text |-> <<>>] :
      k \in {"transport", "nochoices", "emptychoices", "badmessage"}}
  \cup {[kind |-> "ok", text |-> t] : t \in AITexts}

(* What the catalog may do during one query: nothing, fail the Find call, *)
(* fail to decode the pos-th document, or fail the cursor before the      *)
(* pos-th document is delivered                                           *)
NoFault == [kind |-> "none", pos |-> 0]

Faults ==
  {NoFault, [kind |-> "find", pos |-> 0]}
  \cup {[kind |-> k, pos |-> n] : k \in {"decode", "iter"}, n \in 1..MaxFaultPos}

DbErrMsg == "server selection error"
DecodeErrMsg == "cannot decode document"

---------------------------------------------------------------------------
(* Keyword index, cached build *)
addIfUnique(syn, synonym) ==
  LET lowered == ToLower(synonym)
  IN IF \E i \in 1..Len(syn) : syn[i] = lowered THEN syn ELSE Append(syn, lowered)

IndexKeywords ==
  <<S_curso, S_desarrollo, S_web, S_programacion, S_moviles, S_python,
    S_javascript, S_frontend, S_backend>>

(* the loops are recursive functions: their arguments are values, so the *)
(* index built so far is computed before the next iteration starts       *)
IndexValues == Seq(Seq(STRING))

extractAndAddKeywords(syn, text) ==
  LET words == Fields(ToLower(text))
      loop[s \in IndexValues, i \in Nat] ==
        IF i > Len(words) THEN s
        ELSE loop[IF \E k \in 1..Len(IndexKeywords) : Contains(words[i], IndexKeywords[k])
                  THEN addIfUnique(s, words[i]) ELSE s,
                  i + 1]
  IN loop[syn, 1]

loadCoursesAndSynonyms(cat) ==
  LET loop[s \in IndexValues, i \in Nat] ==
        IF i > Len(cat) THEN s
        ELSE loop[extractAndAddKeywords(
                    extractAndAddKeywords(addIfUnique(s, cat[i].category), cat[i].title),
                    cat[i].description),
                  i + 1]
  IN loop[<<>>, 1]

---------------------------------------------------------------------------
(* JSON: a response body or a cached payload *)
NoBody == [kind |-> "none", text |-> <<>>, items |-> <<>>]
JsonNull == [kind |-> "null", text |-> <<>>, items |-> <<>>]
JsonArray(items) == [kind |-> "array", text |-> <<>>, items |-> items]
JsonMessage(msg) == [kind |-> "message", text |-> msg, items |-> <<>>]
PlainText(msg) == [kind |-> "text", text |-> msg, items |-> <<>>]

(* json.Marshal / Encode of a []map[string]interface{}: the nil slice is  *)
(* null, a nil map inside the slice is a null element                     *)
Marshal(courses) == IF Len(courses) = 0 THEN JsonNull ELSE JsonArray(courses)

(* json.Unmarshal into interface{}: null gives nil, an array a slice *)
GoNil == [isNil |-> TRUE, elems |-> <<>>]
Unmarshal(json) ==
  IF json.kind = "array" THEN [isNil |-> FALSE, elems |-> json.items] ELSE GoNil

(* json.NewEncoder(w).Encode of an interface{} value *)
Encode(value) == IF value.isNil THEN JsonNull ELSE JsonArray(value.elems)

---------------------------------------------------------------------------
(* Response cache, cached build *)
CacheKey(question) == S_queryPrefix \o ToLower(question)

CacheKeys == {CacheKey(q) : q \in Questions \ {<<>>}}

NoEntry == [set |-> FALSE, data |-> NoBody, expiry |-> 0]
NotWritten == [set |-> FALSE, payload |-> <<>>, at |-> 0]

cacheResponse(cch, key, data, t) ==
  [cch EXCEPT ![key] = [set |-> TRUE, data |-> Marshal(data), expiry |-> t + CacheTTL]]

(* mutant: the entry's expiry is not honoured *)
getCachedResponse_NoExpiry(cch, key, t) ==
  IF cch[key].set
  THEN [data |-> Unmarshal(cch[key].data), found |-> TRUE]
  ELSE [data |-> GoNil, found |-> FALSE]

getCachedResponse(cch, key, t) ==
  IF cch[key].set /\ t < cch[key].expiry
  THEN [data |-> Unmarshal(cch[key].data), found |-> TRUE]
  ELSE [data |-> GoNil, found |-> FALSE]

---------------------------------------------------------------------------
(* The catalog store: Find with a filter, a sort, a skip and a limit *)
AllFilter == [regex |-> FALSE, terms |-> <<>>]
RegexFilter(terms) == [regex |-> TRUE, terms |-> terms]

(* {"$or": [{category: /t/i}, {title: /t/i}, {description: /t/i}]} for   *)
(* each term t of the filter                                              *)
MatchesFilter(doc, filter) ==
  \/ ~filter.regex
  \/ \E k \in 1..Len(filter.terms) :
        \/ RegexMatchI(doc.category, filter.terms[k])
        \/ RegexMatchI(doc.title, filter.terms[k])
        \/ RegexMatchI(doc.description, filter.terms[k])

RECURSIVE FilterDocs(_, _, _)
FilterDocs(cat, filter, i) ==
  IF i > Len(cat) THEN <<>>
  ELSE (IF MatchesFilter(cat[i], filter) THEN <<cat[i]>> ELSE <<>>)
       \o FilterDocs(cat, filter, i + 1)

SortKey(doc, field) == IF field = "price" THEN doc.price ELSE doc.createdat

(* order = 1 ascending, -1 descending *)
Before(a, b, field, order) ==
  IF order = 1 THEN SortKey(a, field) < SortKey(b, field)
               ELSE SortKey(a, field) > SortKey(b, field)

RECURSIVE InsertSorted(_, _, _, _)
InsertSorted(sorted, doc, field, order) ==
  IF sorted = <<>> THEN <<doc>>
  ELSE IF Before(doc, Head(sorted), field, order)
       THEN <<doc>> \o sorted
       ELSE <<Head(sorted)>> \o InsertSorted(Tail(sorted), doc, field, order)

RECURSIVE SortDocs(_, _, _)
SortDocs(docs, field, order) ==
  IF docs = <<>> THEN <<>>
  ELSE InsertSorted(SortDocs(SubSeq(docs, 1, Len(docs) - 1), field, order),
                    docs[Len(docs)], field, order)

SkipLimit(docs, skip, limit) ==
  SubSeq(docs, skip + 1, IF Len(docs) < skip + limit THEN Len(docs) ELSE skip + limit)

(* the fault hits the iteration only if the cursor still has a document   *)
(* to deliver at that position                                            *)
FaultHits(docs, fault) ==
  fault.kind \in {"decode", "iter"} /\ fault.pos <= Len(docs)

QueryOK(courses, failed) ==
  [courses |-> courses, err |-> FALSE, msg |-> <<>>, failed |-> failed]
QueryErr(msg) ==
  [courses |-> <<>>, err |-> TRUE, msg |-> msg, failed |-> TRUE]

(* cached build: the error of cursor.Decode is dropped and the nil map is *)
(* appended; cursor.Err() is never read, so a cursor that fails ends the  *)
(* loop like an exhausted one                                             *)
getCoursesPaginated(cat, filter, page, limit, fault) ==
  IF fault.kind = "find" THEN QueryErr(<<DbErrMsg>>)
  ELSE LET docs == SkipLimit(FilterDocs(cat, filter, 1), (page - 1) * limit, limit)
       IN IF ~FaultHits(docs, fault) THEN QueryOK(docs, FALSE)
          ELSE IF fault.kind = "decode"
               THEN QueryOK([docs EXCEPT ![fault.pos] = NilCourse], TRUE)
               ELSE QueryOK(SubSeq(docs, 1, fault.pos - 1), TRUE)


(* AI build: hard-coded alternative terms OR-ed into every category query *)
CategorySynonyms == <<S_backend, S_servidor, S_API, S_fullstack, S_desarrollo>>

getCoursesByCategory(cat, category, fault) ==
  IF fault.kind = "find" THEN QueryErr(<<"Error retrieving courses: ", DbErrMsg>>)
  ELSE LET docs == FilterDocs(cat, RegexFilter(<<category>> \o CategorySynonyms), 1)
       IN IF ~FaultHits(docs, fault) THEN QueryOK(docs, FALSE)
          ELSE IF fault.kind = "decode"
               THEN QueryErr(<<"Error decoding course: ", DecodeErrMsg>>)
               ELSE QueryErr(<<"Cursor error: ", DbErrMsg>>)

(* the sort direction is read from the question as given, not lowercased; *)
(* cursor.Err() is not read after the loop                                *)
getCoursesOrderedByPrice(cat, order, fault) ==
  LET sortOrder == IF Contains(order, S_barato) THEN 1 ELSE -1
  IN IF fault.kind = "find"
     THEN QueryErr(<<"Error retrieving courses by price: ", DbErrMsg>>)
     ELSE LET docs == SortDocs(cat, "price", sortOrder)
          IN IF ~FaultHits(docs, fault) THEN QueryOK(docs, FALSE)
             ELSE IF fault.kind = "decode"
                  THEN QueryErr(<<"Error decoding course: ", DecodeErrMsg>>)
                  ELSE QueryOK(SubSeq(docs, 1, fault.pos - 1), TRUE)

getCoursesOrderedByDate(cat, order, fault) ==
  LET sortOrder == IF Contains(order, S_nuevo) \/ Contains(order, S_reciente)
                   THEN -1 ELSE 1
  IN IF fault.kind = "find"
     THEN QueryErr(<<"Error retrieving courses by date: ", DbErrMsg>>)
     ELSE LET docs == SortDocs(cat, "createdat", sortOrder)
          IN IF ~FaultHits(docs, fault) THEN QueryOK(docs, FALSE)
             ELSE IF fault.kind = "decode"
                  THEN QueryErr(<<"Error decoding course: ", DecodeErrMsg>>)
                  ELSE QueryOK(SubSeq(docs, 1, fault.pos - 1), TRUE)

---------------------------------------------------------------------------
(* Intent classifier, cached build *)
IntentKeywords == {S_barato, S_caro, S_nuevo, S_reciente, S_antiguo}

intents(keyword) ==
  CASE keyword = S_barato -> "precio ascendente"
    [] keyword = S_caro -> "precio descendente"
    [] keyword = S_nuevo -> "fecha descendente"
    [] keyword = S_reciente -> "fecha descendente"
    [] keyword = S_antiguo -> "fecha ascendente"

(* The loop ranges over a Go map, whose iteration order is not fixed: the *)
(* call returns the intent of whichever matching keyword comes up first.  *)
(* The operator gives the set of values one call may return.              *)
analyzeIntent(question) ==
  LET lowered == ToLower(question)
      hits == {k \in IntentKeywords : Contains(lowered, k)}
  IN IF hits = {} THEN {"categoría"} ELSE {intents(k) : k \in hits}

containsKeywords(question, keywords) ==
  LET lowered == ToLower(question)
  IN \E k \in 1..Len(keywords) : Contains(lowered, keywords[k])

AICategories ==
  <<S_programacion, S_frontend, S_backend, S_web, S_desarrollo, S_moviles>>

(* first category of the list contained in the question, "" if none *)
extractCategoryFromAI(question) ==
  LET lowered == ToLower(question)
      hit == {k \in 1..Len(AICategories) : Contains(lowered, AICategories[k])}
  IN IF hit = {} THEN <<>>
     ELSE AICategories[CHOOSE k \in hit : \A j \in hit : k <= j]


---------------------------------------------------------------------------
(* What one /chat request did and answered: the status and body written,  *)
(* the intent analyzeIntent returned, the catalog query issued (query,    *)
(* term, sort) and the number of records it delivered (count), whether    *)
(* the answer came from the cache (found) or was written to it (wrote),   *)
(* what the AI call did (ai), whether the catalog failed during the query *)
(* (dbFailed).  status 0 with panicked means the handler goroutine        *)
(* panicked and no response was written.                                  *)
NoResponse ==
  [served |-> FALSE, question |-> <<>>, status |-> 0, body |-> NoBody,
   intent |-> "", query |-> "none", term |-> <<>>, sort |-> 0,
   count |-> 0, found |-> FALSE, wrote |-> FALSE, ai |-> "none",
   panicked |-> FALSE, dbFailed |-> FALSE]

Request(question) == [NoResponse EXCEPT !.served = TRUE, !.question = question]

BadRequest(req) ==
  [req EXCEPT !.status = StatusBadRequest,
              !.body = PlainText(<<"Missing question parameter">>)]

ServerError(req, msg) ==
  [req EXCEPT !.status = StatusInternalServerError, !.body = PlainText(msg)]

---------------------------------------------------------------------------
(* chatHandler, cached build *)

(* the switch on the intent: the query it issues and the query's result *)
routeCached(req, question, intent, syn, cat, fault) ==
  IF intent \in {"precio ascendente", "precio descendente"}
  THEN [req |-> [req EXCEPT !.intent = intent, !.query = "page"],
        res |-> getCoursesPaginated(cat, AllFilter, FirstPage, PageLimit, fault)]
  ELSE LET lowered == ToLower(question)
           hit == {i \in 1..Len(syn) : Contains(lowered, syn[i])}
       IN IF hit = {}
          THEN [req |-> [req EXCEPT !.intent = intent], res |-> QueryOK(<<>>, FALSE)]
          ELSE LET synonym == syn[CHOOSE i \in hit : \A j \in hit : i <= j]
               IN [req |-> [req EXCEPT !.intent = intent, !.query = "pageRegex",
                                       !.term = synonym],
                   res |-> getCoursesPaginated(cat, RegexFilter(<<synonym>>),
                                               FirstPage, PageLimit, fault)]

(* The handlers are functions of bounded inputs; their values are tabled  *)
(* once instead of being recomputed at every step.                        *)
SynonymLists == {<<>>} \cup {loadCoursesAndSynonyms(c) : c \in Catalogs}

(* f @@ the empty function has the value of f, held as an explicit table *)
Tabled(f) == f @@ [x \in {} |-> x]

analyzeIntentTable == Tabled([q \in Questions |-> analyzeIntent(q)])

CacheKeyTable == Tabled([q \in Questions |-> CacheKey(q)])

routeCachedTable ==
  Tabled([q \in Questions |-> Tabled([i \in analyzeIntent(q) |-> Tabled([f \in Faults |->
     Tabled([s \in SynonymLists |-> Tabled([c \in Catalogs |->
        routeCached(Request(q), q, i, s, c, f)])])])])])

(* mutant: the cache is written before the error is looked at *)
respondCached_WritesOnError(req, res, cch, wr, key, t) ==
  LET stored == cacheResponse(cch, key, res.courses, t)
      noted == [wr EXCEPT ![key] = [set |-> TRUE, payload |-> res.courses, at |-> t]]
  IN IF res.err
     THEN [resp |-> [ServerError(req, res.msg) EXCEPT !.dbFailed = res.failed],
           cache |-> stored, written |-> noted]
     ELSE [resp |-> [req EXCEPT !.status = StatusOK, !.body = Marshal(res.courses),
                                !.count = Len(res.courses),
                                !.wrote = TRUE, !.dbFailed = res.failed],
           cache |-> stored, written |-> noted]

(* lines 214-221: the error check, then the cache write and the response *)
respondCached(req, res, cch, wr, key, t) ==
  IF res.err
  THEN [resp |-> [ServerError(req, res.msg) EXCEPT !.dbFailed = res.failed],
        cache |-> cch, written |-> wr]
  ELSE [resp |-> [req EXCEPT !.status = StatusOK, !.body = Marshal(res.courses),
                             !.count = Len(res.courses),
                             !.wrote = TRUE, !.dbFailed = res.failed],
        cache |-> cacheResponse(cch, key, res.courses, t),
        written |-> [wr EXCEPT ![key] = [set |-> TRUE, payload |-> res.courses, at |-> t]]]

chatHandlerCached(question, intent, fault, syn, cat, cch, wr, t) ==
  LET req == Request(question)
      cacheKey == CacheKeyTable[question]
  IN IF question = <<>>
     THEN [resp |-> BadRequest(req), cache |-> cch, written |-> wr]
     ELSE LET got == getCachedResponse(cch, cacheKey, t)
          IN IF got.found
             THEN [resp |-> [req EXCEPT !.status = StatusOK, !.found = TRUE,
                                        !.body = Encode(got.data)],
                   cache |-> cch, written |-> wr]
             ELSE LET routed == routeCachedTable[question][intent][fault][syn][cat]
                  IN respondCached(routed.req, routed.res, cch, wr, cacheKey, t)

---------------------------------------------------------------------------
(* AI build *)
TriggerKeywords == <<S_curso, S_recomendar, S_barato, S_caro, S_programacion>>

AIOk(text) == [text |-> text, err |-> FALSE, msg |-> <<>>, panicked |-> FALSE]
AIErr(msg) == [text |-> <<>>, err |-> TRUE, msg |-> msg, panicked |-> FALSE]
AIPanic == [text |-> <<>>, err |-> FALSE, msg |-> <<>>, panicked |-> TRUE]

(* mutant: a missing credential is not an error, the text is empty *)
chatGPTQuery_NoKeyCheck(question, key, ai) ==
  IF ~key THEN AIOk(<<>>)
  ELSE IF ai.kind = "transport" THEN AIErr(<<"transport error">>)
  ELSE IF ai.kind = "ok" THEN AIOk(ai.text)
  ELSE AIPanic

(* key: whether OPENAI_API_KEY is set; ai: what the remote call does.     *)
(* The type assertions on the decoded body are unchecked: a body without  *)
(* "choices", with an empty "choices" or with a mis-shaped message panics *)
chatGPTQuery(question, key, ai) ==
  IF ~key THEN AIErr(<<"API key not found">>)
  ELSE IF ai.kind = "transport" THEN AIErr(<<"transport error">>)
  ELSE IF ai.kind = "ok" THEN AIOk(ai.text)
  ELSE AIPanic

categoryResponse(req, res) ==
  IF res.err THEN [ServerError(req, res.msg) EXCEPT !.dbFailed = res.failed]
  ELSE IF Len(res.courses) = 0
       THEN [req EXCEPT !.status = StatusOK, !.dbFailed = res.failed,
               !.body = JsonMessage(<<"No se encontraron cursos en esta categoría.">>)]
       ELSE [req EXCEPT !.status = StatusOK, !.dbFailed = res.failed,
               !.count = Len(res.courses), !.body = Marshal(res.courses)]

sortedResponse(req, res) ==
  IF res.err THEN [ServerError(req, res.msg) EXCEPT !.dbFailed = res.failed]
  ELSE [req EXCEPT !.status = StatusOK, !.dbFailed = res.failed,
                   !.count = Len(res.courses), !.body = Marshal(res.courses)]

handleCourseRequest(req, question, cat, fault) ==
  IF containsKeywords(question, <<S_programacion, S_frontend, S_backend>>)
  THEN categoryResponse([req EXCEPT !.query = "byCategory", !.term = question],
                        getCoursesByCategory(cat, question, fault))
  ELSE IF containsKeywords(question, <<S_barato, S_caro, S_precio>>)
  THEN sortedResponse([req EXCEPT !.query = "byPrice",
                         !.sort = IF Contains(question, S_barato) THEN 1 ELSE -1],
                      getCoursesOrderedByPrice(cat, question, fault))
  ELSE IF containsKeywords(question, <<S_nuevo, S_reciente, S_antiguo>>)
  THEN sortedResponse([req EXCEPT !.query = "byDate",
                         !.sort = IF Contains(question, S_nuevo) \/ Contains(question, S_reciente)
                                  THEN -1 ELSE 1],
                      getCoursesOrderedByDate(cat, question, fault))
  ELSE [req EXCEPT !.status = StatusOK,
          !.body = JsonMessage(<<"No se encontraron cursos relacionados con tu búsqueda.">>)]

(* lines 468-489: the part of chatHandler after the question is settled *)
answerAI(req, question, cat, fault) ==
  LET categoryFromAI == extractCategoryFromAI(question)
  IN IF categoryFromAI # <<>>
     THEN categoryResponse([req EXCEPT !.query = "byCategory", !.term = categoryFromAI],
                           getCoursesByCategory(cat, categoryFromAI, fault))
     ELSE handleCourseRequest(req, question, cat, fault)

chatHandlerAI(question, key, ai, fault, cat) ==
  LET req == Request(question)
  IN IF question = <<>> THEN BadRequest(req)
     ELSE IF ~containsKeywords(question, TriggerKeywords)
          THEN LET got == chatGPTQuery(question, key, ai)
                   asked == [req EXCEPT !.ai = IF key THEN ai.kind ELSE "nokey"]
               IN IF got.panicked THEN [asked EXCEPT !.panicked = TRUE]
                  ELSE IF got.err THEN ServerError(asked, got.msg)
                  ELSE answerAI(asked, got.text, cat, fault)
          ELSE answerAI(req, question, cat, fault)

chatHandlerAITable ==
  Tabled([q \in Questions |-> Tabled([key \in BOOLEAN |-> Tabled([ai \in AIOutcomes |->
     Tabled([f \in Faults |-> Tabled([c \in Catalogs |->
        chatHandlerAI(q, key, ai, f, c)])])])])])

---------------------------------------------------------------------------
(* The state machine *)
Init ==
  /\ build \in {"cached", "ai"}
  /\ pc = "boot"
  /\ catalog \in Catalogs
  /\ synonyms = <<>>
  /\ cache = [k \in CacheKeys |-> NoEntry]
  /\ written = [k \in CacheKeys |-> NotWritten]
  /\ now = 0
  /\ apiKey \in (IF build = "ai" THEN BOOLEAN ELSE {FALSE})
  /\ nreq = 0
  /\ last = NoResponse

(* main of the cached build: the index is built before the server listens *)
MainCached ==
  /\ build = "cached" /\ pc = "boot"
  /\ synonyms' = loadCoursesAndSynonyms(catalog)
  /\ pc' = "serving"
  /\ UNCHANGED <<build, catalog, cache, written, now, apiKey, nreq, last>>

(* main of the AI build *)
MainAI ==
  /\ build = "ai" /\ pc = "boot"
  /\ pc' = "serving"
  /\ UNCHANGED <<build, catalog, synonyms, cache, written, now, apiKey, nreq, last>>

ChatCached(question, fault) ==
  /\ build = "cached" /\ pc = "serving" /\ nreq < MaxRequests
  /\ \E intent \in analyzeIntentTable[question] :
       LET out == chatHandlerCached(question, intent, fault, synonyms, catalog,
                                    cache, written, now)
       IN /\ last' = out.resp
          /\ cache' = out.cache
          /\ written' = out.written
  /\ nreq' = nreq + 1
  /\ UNCHANGED <<build, pc, catalog, synonyms, now, apiKey>>

ChatAI(question, ai, fault) ==
  /\ build = "ai" /\ pc = "serving" /\ nreq < MaxRequests
  /\ last' = chatHandlerAITable[question][apiKey][ai][fault][catalog]
  /\ nreq' = nreq + 1
  /\ UNCHANGED <<build, pc, catalog, synonyms, cache, written, now, apiKey>>

(* time passes *)
Tick ==
  /\ pc = "serving" /\ now + TickStep <= MaxTime
  /\ now' = now + TickStep
  /\ UNCHANGED <<build, pc, catalog, synonyms, cache, written, apiKey, nreq, last>>

(* the catalog store is written by others while the service runs: a      *)
(* course is withdrawn                                                    *)
RemoveAt(seq, i) == SubSeq(seq, 1, i - 1) \o SubSeq(seq, i + 1, Len(seq))

CatalogChange ==
  /\ pc = "serving" /\ Len(catalog) <= MaxCatalog
  /\ \E i \in 1..Len(catalog) : catalog' = RemoveAt(catalog, i)
  /\ UNCHANGED <<build, pc, synonyms, cache, written, now, apiKey, nreq, last>>

Next ==
  \/ MainCached
  \/ MainAI
  \/ \E question \in Questions, fault \in Faults : ChatCached(question, fault)
  \/ \E question \in Questions, ai \in AIOutcomes, fault \in Faults :
        ChatAI(question, ai, fault)
  \/ Tick
  \/ CatalogChange

Spec == Init /\ [][Next]_vars

---------------------------------------------------------------------------
(* Properties *)

Lowered(question) == ToLower(question)

HasCheapTerm(question) == Contains(Lowered(question), S_barato)
HasPriceTerm(question) ==
  Contains(Lowered(question), S_barato) \/ Contains(Lowered(question), S_caro)
HasNewTerm(question) ==
  Contains(Lowered(question), S_nuevo) \/ Contains(Lowered(question), S_reciente)

(* the request was routed (not rejected, not answered from the cache) *)
Routed == last.served /\ last.status # StatusBadRequest /\ ~last.found

PriceAscendingSelected ==
  \/ last.intent = "precio ascendente"
  \/ last.query = "byPrice" /\ last.sort = 1

CategoryQuerySelected == last.query \in {"pageRegex", "byCategory"}

NonDecreasingPrice(items) ==
  \A i \in 1..(Len(items) - 1) : items[i].price <= items[i + 1].price

(* C1: every routed question that contains "barato" selects the            *)
(* price-ascending query, whatever category keyword it also contains.      *)
C1_CheapSelectsPriceAscending ==
  (Routed /\ last.ai = "none" /\ HasCheapTerm(last.question))
    => PriceAscendingSelected

(* C2: two classifications of the same question string give the same       *)
(* intent.                                                                 *)
C2_SameQuestionSameIntent ==
  [][(last.intent # "" /\ last'.intent # "" /\ last'.question = last.question)
       => last'.intent = last.intent]_vars

(* C3: a question classified price-ascending whose query meets no catalog  *)
(* failure is answered with at most PageLimit records in non-decreasing    *)
(* price order.                                                            *)
C3_PriceAscendingSortedPage ==
  (Routed /\ PriceAscendingSelected /\ last.status = StatusOK /\ ~last.dbFailed)
    => /\ Len(last.body.items) <= PageLimit
       /\ NonDecreasingPrice(last.body.items)

(* C4: a category match whose term matches zero courses is answered 200    *)
(* with the "no courses in this category" message object, never with an    *)
(* empty array, a null body or an error status.                            *)
C4_EmptyCategoryMessage ==
  (Routed /\ CategoryQuerySelected /\ ~last.dbFailed /\ last.count = 0)
    => /\ last.status = StatusOK
       /\ last.body = JsonMessage(<<"No se encontraron cursos en esta categoría.">>)

C7_UpstreamFailureIs500 ==
  (last.served /\ last.ai \in {"nokey", "transport", "nochoices", "emptychoices", "badmessage"})
    => /\ ~last.panicked
       /\ last.status = StatusInternalServerError
       /\ last.body.kind = "text"

(* C8: a request whose catalog query fails, at Find or while the cursor is *)
(* iterated, is answered 500 with the error message, never 200.            *)
C8_CatalogFailureIs500 ==
  (last.served /\ last.dbFailed)
    => /\ last.status = StatusInternalServerError
       /\ last.body.kind = "text"

(* C9: a routed question with a new/recent term and no price term is       *)
(* answered by the creation-date query in descending order, not by a       *)
(* category match and not without a query.                                 *)
C9_NewSelectsDateDescending ==
  (Routed /\ last.ai = "none" /\ HasNewTerm(last.question) /\ ~HasPriceTerm(last.question))
    => last.query = "byDate" /\ last.sort = -1

(* C10: in the cached build a request answered 400 or 500 leaves the cache *)
(* unchanged; a request answered from the cache issues no catalog query    *)
(* and writes nothing; the cache changes only in a request that computes a *)
(* fresh 200 response, and only at the key of that request's question.     *)
C10_CacheWrittenOnlyOnFresh200 ==
  [][build = "cached" =>
       /\ (nreq' = nreq) => cache' = cache
       /\ (nreq' = nreq + 1) =>
            /\ last'.status \in {StatusBadRequest, StatusInternalServerError}
                 => cache' = cache
            /\ last'.found => (cache' = cache /\ last'.query = "none" /\ ~last'.wrote)
            /\ (cache' # cache) =>
                 /\ last'.status = StatusOK /\ ~last'.found /\ last'.wrote
                 /\ \A k \in DOMAIN cache :
                      cache'[k] # cache[k]
                        => k = S_queryPrefix \o Lowered(last'.question)
            /\ last'.wrote =>
                 LET e == cache'[S_queryPrefix \o Lowered(last'.question)]
                 IN e.set /\ e.data = last'.body /\ e.expiry = now + CacheTTL]_vars

(* a request fails with 500 while the cache holds an earlier response *)
C10_Witness ==
  /\ build = "cached" /\ last.status = StatusInternalServerError
  /\ \E k \in DOMAIN cache : cache[k].set

====
